---- MODULE Spec2Model ----
(***************************************************************************)
(* Budget ledger of the daycare budgeting program (src/main.py).           *)
(*                                                                         *)
(* The state is the in-memory ledger st.session_state.budget_data, the     *)
(* persisted file garderie_budget.json and a record of the last operation  *)
(* with what it returned.  The methods of GarderieBudget are operators on  *)
(* the ledger; the actions are the handlers of main() that call them.      *)
(***************************************************************************)
EXTENDS Integers, Sequences, FiniteSets, TLC

VARIABLES budget_data, file, last

vars == <<budget_data, file, last>>

(***************************************************************************)
(* Bounds of the model.                                                    *)
(***************************************************************************)
\* entries in the whole ledger, specification of the ledger operations
MaxEntries == 2
\* entries in the whole ledger, specification of one year with rounding amounts
MaxYearEntries == 3
\* entries in the whole ledger, specification with persistence
MaxStoreEntries == 1
\* entries in the whole ledger, specification of the annual report
MaxReportEntries == 2

\* entries in the whole ledger, specification of the isolation of months
MaxIsolationEntries == 2

(***************************************************************************)
(* Amounts are Python floats (st.number_input with min_value=0.0).  A      *)
(* float is modelled as an integer number of units kept to Prec            *)
(* significant bits: the result of + and - is the exact result rounded to  *)
(* the nearest representable value, ties to even, as IEEE 754 does with 53 *)
(* bits.                                                                   *)
(***************************************************************************)
Prec == 3

Pow2(n) == 2 ^ n

Abs(x) == IF x < 0 THEN 0 - x ELSE x

RECURSIVE Ulp(_)
Ulp(n) == IF n < Pow2(Prec) THEN 1 ELSE 2 * Ulp(n \div 2)

RoundFloat(x) ==
    LET n == Abs(x)
        u == Ulp(n)
        q == n \div u
        r == n % u
        up == (2 * r > u) \/ (2 * r = u /\ q % 2 = 1)
        v == (IF up THEN q + 1 ELSE q) * u
    IN  IF x < 0 THEN 0 - v ELSE v

FAdd(a, b) == RoundFloat(a + b)

FSub(a, b) == RoundFloat(a - b)

\* sum(item['amount'] for item in items): 0 + a1 + a2 + ... from the left
RECURSIVE SumAmounts(_)
SumAmounts(items) ==
    IF items = <<>> THEN 0
    ELSE FAdd(SumAmounts(SubSeq(items, 1, Len(items) - 1)), items[Len(items)].amount)

(***************************************************************************)
(* Fixed enumerations of GarderieBudget.__init__.                          *)
(***************************************************************************)
months ==
    << "Janvier", "Fevrier", "Mars", "Avril", "Mai", "Juin",
       "Juillet", "Aout", "Septembre", "Octobre", "Novembre", "Decembre" >>

revenue_categories ==
    << "Frais de garde", "Subventions gouvernementales", "Frais d'inscription",
       "Activites speciales", "Autres revenus" >>

expense_categories ==
    << "Salaires et avantages", "Alimentation", "Materiel educatif", "Fournitures",
       "Loyer/Hypotheque", "Services publics", "Assurances",
       "Entretien et reparations", "Formation du personnel", "Autres depenses" >>

Range(s) == {s[i] : i \in 1..Len(s)}

(***************************************************************************)
(* Keys and month records.                                                 *)
(***************************************************************************)
\* the key without the year
get_month_key_NoYear(year, month) == ToString(month)

\* f"{year}-{month}"
get_month_key(year, month) == ToString(year) \o "-" \o ToString(month)

EmptyMonth == [revenues |-> <<>>, expenses |-> <<>>, notes |-> ""]

\* get_month_data without the test "key not in budget_data": the month is reset
get_month_data_Reset(bd, year, month) ==
    LET key == get_month_key(year, month)
    IN  [k \in DOMAIN bd \cup {key} |-> IF k = key THEN EmptyMonth ELSE bd[k]]

\* The store after get_month_data(year, month); the month it returns is the
\* value of the store at the key (the dict object is shared with the store).
get_month_data(bd, year, month) ==
    LET key == get_month_key(year, month)
    IN  IF key \in DOMAIN bd THEN bd ELSE bd @@ (key :> EmptyMonth)

\* date.isoformat(): YYYY-MM-DD
Pad2(n) == IF n < 10 THEN "0" \o ToString(n) ELSE ToString(n)

isoformat(d) == ToString(d.year) \o "-" \o Pad2(d.month) \o "-" \o Pad2(d.day)

\* add_revenue with the id taken as the length of the list, without the + 1
add_revenue_IdIsLength(bd, year, month, category, description, amount, date_entry) ==
    LET key == get_month_key(year, month)
        bd1 == get_month_data(bd, year, month)
        month_data == bd1[key]
        revenue == [id |-> Len(month_data.revenues),
                    category |-> category,
                    description |-> description,
                    amount |-> amount,
                    date |-> isoformat(date_entry)]
    IN  [bd1 EXCEPT ![key] =
            [month_data EXCEPT !.revenues = Append(month_data.revenues, revenue)]]

add_revenue(bd, year, month, category, description, amount, date_entry) ==
    LET key == get_month_key(year, month)
        bd1 == get_month_data(bd, year, month)
        month_data == bd1[key]
        revenue == [id |-> Len(month_data.revenues) + 1,
                    category |-> category,
                    description |-> description,
                    amount |-> amount,
                    date |-> isoformat(date_entry)]
    IN  [bd1 EXCEPT ![key] =
            [month_data EXCEPT !.revenues = Append(month_data.revenues, revenue)]]

add_expense(bd, year, month, category, description, amount, date_entry) ==
    LET key == get_month_key(year, month)
        bd1 == get_month_data(bd, year, month)
        month_data == bd1[key]
        expense == [id |-> Len(month_data.expenses) + 1,
                    category |-> category,
                    description |-> description,
                    amount |-> amount,
                    date |-> isoformat(date_entry)]
    IN  [bd1 EXCEPT ![key] =
            [month_data EXCEPT !.expenses = Append(month_data.expenses, expense)]]

\* delete_item that takes item_id for the position of the entry in the list
delete_item_ByPosition(bd, year, month, item_type, item_id) ==
    LET key == get_month_key(year, month)
        bd1 == get_month_data(bd, year, month)
        month_data == bd1[key]
        items == month_data[item_type]
        kept == IF item_id \in 1..Len(items)
                THEN SubSeq(items, 1, item_id - 1) \o SubSeq(items, item_id + 1, Len(items))
                ELSE items
    IN  [bd1 EXCEPT ![key] = [month_data EXCEPT ![item_type] = kept]]

delete_item(bd, year, month, item_type, item_id) ==
    LET key == get_month_key(year, month)
        bd1 == get_month_data(bd, year, month)
        month_data == bd1[key]
        kept == SelectSeq(month_data[item_type], LAMBDA item : item.id # item_id)
    IN  [bd1 EXCEPT ![key] = [month_data EXCEPT ![item_type] = kept]]

\* calculate_totals with the expenses summed over the revenues list
calculate_totals_SameList(bd, year, month) ==
    LET key == get_month_key(year, month)
        bd1 == get_month_data(bd, year, month)
        month_data == bd1[key]
        total_revenues == SumAmounts(month_data.revenues)
        total_expenses == SumAmounts(month_data.revenues)
    IN  [store |-> bd1,
         totals |-> [revenues |-> total_revenues,
                     expenses |-> total_expenses,
                     net_income |-> FSub(total_revenues, total_expenses)]]

\* [store |-> the store after the call, totals |-> the dict returned]
calculate_totals(bd, year, month) ==
    LET key == get_month_key(year, month)
        bd1 == get_month_data(bd, year, month)
        month_data == bd1[key]
        total_revenues == SumAmounts(month_data.revenues)
        total_expenses == SumAmounts(month_data.expenses)
    IN  [store |-> bd1,
         totals |-> [revenues |-> total_revenues,
                     expenses |-> total_expenses,
                     net_income |-> FSub(total_revenues, total_expenses)]]

\* the category fold with = in place of +=
RECURSIVE AddCategories_Overwrite(_, _)
AddCategories_Overwrite(categories, items) ==
    IF items = <<>> THEN categories
    ELSE LET done == AddCategories_Overwrite(categories, SubSeq(items, 1, Len(items) - 1))
             item == items[Len(items)]
         IN  [done EXCEPT ![item.category] = item.amount]

\* for item in items: categories[item['category']] += item['amount']
RECURSIVE AddCategories(_, _)
AddCategories(categories, items) ==
    IF items = <<>> THEN categories
    ELSE LET done == AddCategories(categories, SubSeq(items, 1, Len(items) - 1))
             item == items[Len(items)]
         IN  [done EXCEPT ![item.category] = FAdd(done[item.category], item.amount)]

EmptyReport ==
    [monthly_totals |-> <<>>,
     revenue_categories |-> [cat \in Range(revenue_categories) |-> 0],
     expense_categories |-> [cat \in Range(expense_categories) |-> 0],
     grand_totals |-> [revenues |-> 0, expenses |-> 0, net_income |-> 0]]

\* One pass of "for month in range(12)", from `month` on.
RECURSIVE ReportLoop(_, _, _, _)
ReportLoop(bd, year, month, annual_data) ==
    IF month >= 12 THEN [store |-> bd, report |-> annual_data]
    ELSE LET bd1 == get_month_data(bd, year, month)
             month_data == bd1[get_month_key(year, month)]
             ct == calculate_totals(bd1, year, month)
             totals == ct.totals
             next ==
                 [monthly_totals |->
                      Append(annual_data.monthly_totals,
                             [month |-> months[month + 1],
                              revenues |-> totals.revenues,
                              expenses |-> totals.expenses,
                              net_income |-> totals.net_income]),
                  revenue_categories |->
                      AddCategories(annual_data.revenue_categories, month_data.revenues),
                  expense_categories |->
                      AddCategories(annual_data.expense_categories, month_data.expenses),
                  grand_totals |->
                      [revenues |-> FAdd(annual_data.grand_totals.revenues, totals.revenues),
                       expenses |-> FAdd(annual_data.grand_totals.expenses, totals.expenses),
                       net_income |-> annual_data.grand_totals.net_income]]
         IN  ReportLoop(ct.store, year, month + 1, next)

\* [store |-> the store after the call, report |-> the dict returned]
generate_annual_report(bd, year) ==
    LET r == ReportLoop(bd, year, 0, EmptyReport)
        g == r.report.grand_totals
    IN  [store |-> r.store,
         report |-> [r.report EXCEPT
                        !.grand_totals.net_income = FSub(g.revenues, g.expenses)]]

(***************************************************************************)
(* Persistence.  The file is absent, holds a complete JSON document, or    *)
(* holds a strict prefix of one (a write that failed after the file was    *)
(* opened for writing, which truncates it).  A JSON document is modelled   *)
(* by its structure: an object of month objects whose scalars are JSON     *)
(* numbers and JSON strings.                                               *)
(***************************************************************************)
JNumber(v) == <<"number", v>>

JString(s) == <<"string", s>>

dump_entry(e) ==
    [id |-> JNumber(e.id),
     category |-> JString(e.category),
     description |-> JString(e.description),
     amount |-> JNumber(e.amount),
     date |-> JString(e.date)]

dump_month(md) ==
    [revenues |-> [i \in 1..Len(md.revenues) |-> dump_entry(md.revenues[i])],
     expenses |-> [i \in 1..Len(md.expenses) |-> dump_entry(md.expenses[i])],
     notes |-> JString(md.notes)]

\* a dump that leaves out the months that hold no entry
json_dump_SkipEmpty(bd) ==
    [key \in {k \in DOMAIN bd : bd[k].revenues # <<>> \/ bd[k].expenses # <<>>} |->
        dump_month(bd[key])]

\* json.dump(st.session_state.budget_data, f, ensure_ascii=False, indent=2)
json_dump(bd) == [key \in DOMAIN bd |-> dump_month(bd[key])]

load_entry(j) ==
    [id |-> j.id[2],
     category |-> j.category[2],
     description |-> j.description[2],
     amount |-> j.amount[2],
     date |-> j.date[2]]

load_month(j) ==
    [revenues |-> [i \in 1..Len(j.revenues) |-> load_entry(j.revenues[i])],
     expenses |-> [i \in 1..Len(j.expenses) |-> load_entry(j.expenses[i])],
     notes |-> j.notes[2]]

\* json.load(f)
json_load(doc) == [key \in DOMAIN doc |-> load_month(doc[key])]

EmptyLedger == <<>>

NoFile == [state |-> "absent", doc |-> <<>>]

\* load_data without the os.path.exists test: opening an absent file raises
load_data_NoExistsCheck(f, readable) ==
    IF readable /\ f.state = "complete"
    THEN [data |-> json_load(f.doc), status |-> "ok"]
    ELSE [data |-> EmptyLedger, status |-> "error"]

\* [data |-> the dict returned, status |-> "ok", or "error" when st.error is shown]
\* readable is FALSE when open or read raises (the except branch).
load_data(f, readable) ==
    IF f.state = "absent" THEN [data |-> EmptyLedger, status |-> "ok"]
    ELSE IF readable /\ f.state = "complete"
         THEN [data |-> json_load(f.doc), status |-> "ok"]
         ELSE [data |-> EmptyLedger, status |-> "error"]

\* The file after save_data and the message shown.  outcome is "ok", "open_failed"
\* (open raises: the file is untouched) or "write_failed" (json.dump raises after
\* open(..., 'w') truncated the file).
save_data(bd, f, outcome) ==
    IF outcome = "ok"
    THEN [file |-> [state |-> "complete", doc |-> json_dump(bd)], status |-> "ok"]
    ELSE IF outcome = "open_failed"
         THEN [file |-> f, status |-> "error"]
         ELSE [file |-> [state |-> "partial", doc |-> <<>>], status |-> "error"]

(***************************************************************************)
(* Inputs.  A scope names the values the handlers draw their inputs from:  *)
(* the sidebar's (year, month) pairs (keys) and the years of the annual    *)
(* report, the form's category and amount, the notes, and the cap on the   *)
(* number of entries in the ledger.                                        *)
(***************************************************************************)
LedgerScope ==
    [years |-> {2025},
     keys |-> {<<2025, 0>>, <<2025, 11>>},
     revcats |-> {revenue_categories[1]},
     expcats |-> {expense_categories[1]},
     amounts |-> {0, 2, 7},
     notes |-> {},
     cap |-> MaxEntries,
     missing |-> TRUE]

YearScope ==
    [years |-> {2025},
     keys |-> {<<2025, 0>>, <<2025, 11>>},
     revcats |-> {revenue_categories[1]},
     expcats |-> {expense_categories[1]},
     amounts |-> {2, 7},
     notes |-> {},
     cap |-> MaxYearEntries,
     missing |-> FALSE]

ReportScope ==
    [years |-> {2025},
     keys |-> {<<2024, 0>>, <<2025, 0>>, <<2025, 11>>},
     revcats |-> {revenue_categories[1], revenue_categories[2]},
     expcats |-> {expense_categories[1]},
     amounts |-> {2},
     notes |-> {},
     cap |-> MaxReportEntries,
     missing |-> FALSE]

StoreScope ==
    [years |-> {2025},
     keys |-> {<<2025, 0>>},
     revcats |-> {revenue_categories[1]},
     expcats |-> {expense_categories[1]},
     amounts |-> {0, 2},
     notes |-> {"RAS"},
     cap |-> MaxStoreEntries,
     missing |-> FALSE]

IsolationScope ==
    [years |-> {2025},
     keys |-> {<<2024, 0>>, <<2025, 0>>},
     revcats |-> {revenue_categories[1]},
     expcats |-> {expense_categories[1]},
     amounts |-> {2},
     notes |-> {"RAS"},
     cap |-> MaxIsolationEntries,
     missing |-> TRUE]

Description == "Juillet"

Today == [year |-> 2025, month |-> 7, day |-> 1]

\* number of entries in the ledger, all months and both lists
TotalEntries(bd) ==
    Cardinality(UNION {({key} \X {"revenues"} \X (1..Len(bd[key].revenues)))
                           \cup ({key} \X {"expenses"} \X (1..Len(bd[key].expenses))) :
                       key \in DOMAIN bd})

NoReturn == <<>>

\* the list item_type of month (year, month) as the store holds it, empty when the
\* month was never touched
ListOf(bd, year, month, item_type) ==
    LET key == get_month_key(year, month)
    IN  IF key \in DOMAIN bd THEN bd[key][item_type] ELSE <<>>

\* The record of a call: the operation, its arguments, the length of the target
\* list before the call (pre), the message shown (status) and the value returned.
Call(op, year, month, kind, arg, pre, status, ret) ==
    [op |-> op, year |-> year, month |-> month, kind |-> kind, arg |-> arg,
     pre |-> pre, status |-> status, ret |-> ret]

(***************************************************************************)
(* Init: GarderieBudget.__init__ of a first session, no file yet.          *)
(***************************************************************************)
Init ==
    /\ file = NoFile
    /\ budget_data = load_data(NoFile, TRUE).data
    /\ last = Call("init", 0, 0, "-", 0, 0, "ok", NoReturn)

(***************************************************************************)
(* The handlers of main().                                                 *)
(***************************************************************************)
\* the form "add_revenue" saving the ledger after an accepted add
AddRevenueForm_Autosave(S) ==
    \E <<year, month>> \in S.keys, rev_category \in S.revcats,
       rev_amount \in S.amounts :
        /\ rev_amount > 0 => TotalEntries(budget_data) < S.cap
        /\ budget_data' =
               IF rev_amount > 0
               THEN add_revenue(budget_data, year, month, rev_category, Description,
                                rev_amount, Today)
               ELSE budget_data
        /\ last' = Call("add_revenue", year, month, "revenues", rev_amount,
                        Len(ListOf(budget_data, year, month, "revenues")),
                        IF rev_amount > 0 THEN "ok" ELSE "error", NoReturn)
        /\ file' = IF rev_amount > 0
                   THEN save_data(budget_data', file, "ok").file
                   ELSE file

\* the form "add_revenue" without the check of the amount
AddRevenueForm_NoCheck(S) ==
    \E <<year, month>> \in S.keys, rev_category \in S.revcats,
       rev_amount \in S.amounts :
        /\ TotalEntries(budget_data) < S.cap
        /\ budget_data' = add_revenue(budget_data, year, month, rev_category,
                                      Description, rev_amount, Today)
        /\ last' = Call("add_revenue", year, month, "revenues", rev_amount,
                        Len(ListOf(budget_data, year, month, "revenues")),
                        "ok", NoReturn)
        /\ UNCHANGED file

\* the form "add_revenue": the amount is checked, then add_revenue is called
AddRevenueForm(S) ==
    \E <<year, month>> \in S.keys, rev_category \in S.revcats,
       rev_amount \in S.amounts :
        /\ rev_amount > 0 => TotalEntries(budget_data) < S.cap
        /\ budget_data' =
               IF rev_amount > 0
               THEN add_revenue(budget_data, year, month, rev_category, Description,
                                rev_amount, Today)
               ELSE budget_data
        /\ last' = Call("add_revenue", year, month, "revenues", rev_amount,
                        Len(ListOf(budget_data, year, month, "revenues")),
                        IF rev_amount > 0 THEN "ok" ELSE "error", NoReturn)
        /\ UNCHANGED file

\* the form "add_expense"
AddExpenseForm(S) ==
    \E <<year, month>> \in S.keys, exp_category \in S.expcats,
       exp_amount \in S.amounts :
        /\ exp_amount > 0 => TotalEntries(budget_data) < S.cap
        /\ budget_data' =
               IF exp_amount > 0
               THEN add_expense(budget_data, year, month, exp_category, Description,
                                exp_amount, Today)
               ELSE budget_data
        /\ last' = Call("add_expense", year, month, "expenses", exp_amount,
                        Len(ListOf(budget_data, year, month, "expenses")),
                        IF exp_amount > 0 THEN "ok" ELSE "error", NoReturn)
        /\ UNCHANGED file

\* delete_item(year, month, item_type, item_id).  The delete buttons call it with
\* the id of a listed entry; a scope with missing = TRUE also draws the ids 1..cap
\* that no entry has (no list holds a larger one).
DeleteItem(S) ==
    \E <<year, month>> \in S.keys, item_type \in {"revenues", "expenses"},
       item_id \in 1..S.cap :
        /\ S.missing \/ \E i \in 1..Len(ListOf(budget_data, year, month, item_type)) :
                            ListOf(budget_data, year, month, item_type)[i].id = item_id
        /\ budget_data' = delete_item(budget_data, year, month, item_type, item_id)
        /\ last' = Call("delete_item", year, month, item_type, item_id,
                        Len(ListOf(budget_data, year, month, item_type)), "ok", NoReturn)
        /\ UNCHANGED file

\* the button "Sauvegarder les notes"
SaveNotes(S) ==
    \E <<year, month>> \in S.keys, notes \in S.notes \cup {""} :
        LET key == get_month_key(year, month)
            bd1 == get_month_data(budget_data, year, month)
        IN  /\ budget_data' = [bd1 EXCEPT ![key].notes = notes]
            /\ last' = Call("set_notes", year, month, "notes", 0, 0, "ok", NoReturn)
            /\ UNCHANGED file

\* the metrics of the current month: calculate_totals
ViewTotals(S) ==
    \E <<year, month>> \in S.keys :
        LET r == calculate_totals(budget_data, year, month)
        IN  /\ budget_data' = r.store
            /\ last' = Call("calculate_totals", year, month, "-", 0, 0, "ok", <<r.totals>>)
            /\ UNCHANGED file

\* the tab "Rapport Annuel": generate_annual_report
AnnualReport(S) ==
    \E year \in S.years :
        LET r == generate_annual_report(budget_data, year)
        IN  /\ budget_data' = r.store
            /\ last' = Call("generate_annual_report", year, 0, "-", 0, 0, "ok",
                            <<r.report>>)
            /\ UNCHANGED file

\* the button "Sauvegarder": save_data
SaveButton ==
    \E outcome \in {"ok", "open_failed", "write_failed"} :
        LET r == save_data(budget_data, file, outcome)
        IN  /\ file' = r.file
            /\ last' = Call("save_data", 0, 0, "-", 0, 0, r.status, NoReturn)
            /\ UNCHANGED budget_data

\* a new session: 'budget_data' is not in st.session_state, load_data is called
NewSession ==
    \E readable \in BOOLEAN :
        LET r == load_data(file, readable)
        IN  /\ file.state = "absent" => readable
            /\ budget_data' = r.data
            /\ last' = Call("load_data", 0, 0, "-", 0, 0, r.status, NoReturn)
            /\ UNCHANGED file

(***************************************************************************)
(* Spec: the whole program, persistence included, on one month.            *)
(* SpecLedger: the ledger operations of one session on two months, deletes *)
(* of ids that no entry has included.                                      *)
(* SpecYear: the same on one year, with amounts whose sums round.          *)
(* SpecReport: the same on two years and two revenue categories.           *)
(* SpecIsolation: the same on the same month of two years, with notes.     *)
(* A session that loads a file finds a ledger an earlier session saved, so *)
(* the ledgers of the last four are those of sessions with persistence.   *)
(***************************************************************************)
Next ==
    \/ AddRevenueForm(StoreScope)
    \/ AddExpenseForm(StoreScope)
    \/ DeleteItem(StoreScope)
    \/ SaveNotes(StoreScope)
    \/ ViewTotals(StoreScope)
    \/ AnnualReport(StoreScope)
    \/ SaveButton
    \/ NewSession

Spec == Init /\ [][Next]_vars

NextLedger ==
    \/ AddRevenueForm(LedgerScope)
    \/ AddExpenseForm(LedgerScope)
    \/ DeleteItem(LedgerScope)
    \/ SaveNotes(LedgerScope)
    \/ ViewTotals(LedgerScope)
    \/ AnnualReport(LedgerScope)

SpecLedger == Init /\ [][NextLedger]_vars

NextYear ==
    \/ AddRevenueForm(YearScope)
    \/ AddExpenseForm(YearScope)
    \/ DeleteItem(YearScope)
    \/ SaveNotes(YearScope)
    \/ ViewTotals(YearScope)
    \/ AnnualReport(YearScope)

SpecYear == Init /\ [][NextYear]_vars

NextReport ==
    \/ AddRevenueForm(ReportScope)
    \/ AddExpenseForm(ReportScope)
    \/ DeleteItem(ReportScope)
    \/ SaveNotes(ReportScope)
    \/ ViewTotals(ReportScope)
    \/ AnnualReport(ReportScope)

SpecReport == Init /\ [][NextReport]_vars

NextIsolation ==
    \/ AddRevenueForm(IsolationScope)
    \/ AddExpenseForm(IsolationScope)
    \/ DeleteItem(IsolationScope)
    \/ SaveNotes(IsolationScope)
    \/ ViewTotals(IsolationScope)
    \/ AnnualReport(IsolationScope)

SpecIsolation == Init /\ [][NextIsolation]_vars

(***************************************************************************)
(* Properties.                                                             *)
(***************************************************************************)
Kinds == {"revenues", "expenses"}

\* the month and list the last call was about
LastKey == get_month_key(last.year, last.month)

LastList == ListOf(budget_data, last.year, last.month, last.kind)

IsAdd(call) == call.op \in {"add_revenue", "add_expense"}

\* s without its first entry of id item_id
RECURSIVE RemoveFirst(_, _)
RemoveFirst(s, item_id) ==
    IF s = <<>> THEN <<>>
    ELSE IF Head(s).id = item_id THEN Tail(s)
         ELSE <<Head(s)>> \o RemoveFirst(Tail(s), item_id)

\* C1: no two entries of the same list of the same month have the same id.
C1_UniqueIds ==
    \A key \in DOMAIN budget_data : \A kind \in Kinds :
        \A i, j \in 1..Len(budget_data[key][kind]) :
            i # j => budget_data[key][kind][i].id # budget_data[key][kind][j].id

\* C2: delete_item removes exactly the first entry of the given id and keeps the
\* others in order; an add followed by a delete of the id the add assigned gives
\* back the list as it was before the add.
C2_DeleteUndoesAdd ==
    \A <<year, month>> \in LedgerScope.keys :
        LET key == get_month_key(year, month)
            revs == ListOf(budget_data, year, month, "revenues")
            exps == ListOf(budget_data, year, month, "expenses")
            addedR == add_revenue(budget_data, year, month, revenue_categories[1],
                                  Description, 2, Today)
            addedE == add_expense(budget_data, year, month, expense_categories[1],
                                  Description, 2, Today)
        IN  /\ \A item_id \in 1..MaxEntries :
                /\ delete_item(budget_data, year, month, "revenues", item_id)[key].revenues
                       = RemoveFirst(revs, item_id)
                /\ delete_item(budget_data, year, month, "expenses", item_id)[key].expenses
                       = RemoveFirst(exps, item_id)
            /\ delete_item(addedR, year, month, "revenues",
                           addedR[key].revenues[Len(revs) + 1].id)[key].revenues = revs
            /\ delete_item(addedE, year, month, "expenses",
                           addedE[key].expenses[Len(exps) + 1].id)[key].expenses = exps

\* C3: an accepted add appends exactly one entry at the end of the target list,
\* with id = the length of the list before the call + 1, and leaves the entries
\* already in the list unchanged and in the same order.
C3_AddAppends ==
    [][(IsAdd(last') /\ last'.status = "ok") =>
          LET old == ListOf(budget_data, last'.year, last'.month, last'.kind)
              new == ListOf(budget_data', last'.year, last'.month, last'.kind)
          IN  /\ Len(new) = Len(old) + 1
              /\ SubSeq(new, 1, Len(old)) = old
              /\ new[Len(new)].id = Len(old) + 1
              /\ new[Len(new)].amount = last'.arg]_vars

C3_Witness ==
    /\ IsAdd(last) /\ last.status = "ok"
    /\ last.pre = 1
    /\ Len(LastList) = 2
    /\ LastList[2].id = 2

\* C4: an add with amount <= 0 is rejected before any mutation: the target list,
\* the other list, the notes and the totals of the month are the same after it.
C4_RejectedAddNoChange ==
    [][(IsAdd(last') /\ last'.arg <= 0) =>
          /\ last'.status = "error"
          /\ \A kind \in Kinds :
                 ListOf(budget_data', last'.year, last'.month, kind)
                     = ListOf(budget_data, last'.year, last'.month, kind)
          /\ budget_data' = budget_data
          /\ calculate_totals(budget_data', last'.year, last'.month).totals
                 = calculate_totals(budget_data, last'.year, last'.month).totals]_vars

C4_Witness ==
    /\ IsAdd(last) /\ last.arg = 0 /\ last.status = "error"
    /\ LastKey \in DOMAIN budget_data
    /\ budget_data[LastKey].notes # ""
    /\ Len(budget_data[LastKey].revenues) + Len(budget_data[LastKey].expenses) > 0

\* C5: delete_item with an id that no entry of the target list has raises no error
\* and leaves the list unchanged (an empty list stays empty); deleting the same id
\* a second time changes nothing more.
C5_DeleteMissingNoChange ==
    [][last'.op = "delete_item" =>
          LET old == ListOf(budget_data, last'.year, last'.month, last'.kind)
              new == ListOf(budget_data', last'.year, last'.month, last'.kind)
              key == get_month_key(last'.year, last'.month)
              again == delete_item(budget_data', last'.year, last'.month, last'.kind,
                                   last'.arg)
          IN  /\ last'.status = "ok"
              /\ (\A i \in 1..Len(old) : old[i].id # last'.arg) => new = old
              /\ again[key][last'.kind] = new]_vars

C5_Witness ==
    /\ last.op = "delete_item" /\ last.status = "ok"
    /\ last.pre > 0
    /\ Len(LastList) = last.pre
    /\ \A i \in 1..Len(LastList) : LastList[i].id > last.arg

\* the amounts of items added up from the left, starting from acc
RECURSIVE SumFrom(_, _)
SumFrom(acc, items) ==
    IF items = <<>> THEN acc
    ELSE SumFrom(FAdd(acc, Head(items).amount), Tail(items))

\* C6: calculate_totals returns revenues = the sum of the amounts of the month's
\* revenues, expenses = the sum of the amounts of its expenses and net_income =
\* revenues - expenses; all three are 0 for a month without entries.
C6_TotalsAreSums ==
    /\ last.op = "calculate_totals" =>
          LET t == last.ret[1]
              revs == ListOf(budget_data, last.year, last.month, "revenues")
              exps == ListOf(budget_data, last.year, last.month, "expenses")
          IN  /\ t.revenues = SumFrom(0, revs)
              /\ t.expenses = SumFrom(0, exps)
              /\ t.net_income = FSub(t.revenues, t.expenses)
              /\ (revs = <<>> /\ exps = <<>>) =>
                     t = [revenues |-> 0, expenses |-> 0, net_income |-> 0]
    /\ \A <<year, month>> \in LedgerScope.keys :
          LET t == calculate_totals(budget_data, year, month).totals
          IN  /\ t.revenues = SumFrom(0, ListOf(budget_data, year, month, "revenues"))
              /\ t.expenses = SumFrom(0, ListOf(budget_data, year, month, "expenses"))
              /\ t.net_income = FSub(t.revenues, t.expenses)

C6_Witness ==
    /\ last.op = "calculate_totals"
    /\ Len(ListOf(budget_data, last.year, last.month, "revenues")) = 1
    /\ Len(ListOf(budget_data, last.year, last.month, "expenses")) = 1
    /\ last.ret[1].revenues = 7
    /\ last.ret[1].expenses = 2
    /\ last.ret[1].net_income = 5

\* the net_income values of monthly_totals added up from the left
RECURSIVE SumNets(_, _)
SumNets(acc, monthly_totals) ==
    IF monthly_totals = <<>> THEN acc
    ELSE SumNets(FAdd(acc, Head(monthly_totals).net_income), Tail(monthly_totals))

\* C7: generate_annual_report returns 12 monthly_totals in month order, with
\* grand_totals.net_income = grand_totals.revenues - grand_totals.expenses, and the
\* sum of the 12 monthly net_income values equals grand_totals.net_income.
C7_ReportNetConsistent ==
    last.op = "generate_annual_report" =>
        LET report == last.ret[1]
            g == report.grand_totals
        IN  /\ Len(report.monthly_totals) = 12
            /\ \A i \in 1..12 : report.monthly_totals[i].month = months[i]
            /\ g.net_income = FSub(g.revenues, g.expenses)
            /\ SumNets(0, report.monthly_totals) = g.net_income

\* the entries of list kind of months 0..month of a year, in month order
RECURSIVE YearItems(_, _, _, _)
YearItems(bd, year, month, kind) ==
    IF month < 0 THEN <<>>
    ELSE YearItems(bd, year, month - 1, kind) \o ListOf(bd, year, month, kind)

OfCategory(items, cat) == SelectSeq(items, LAMBDA item : item.category = cat)

\* C8: in the annual report of a year, every fixed category is present and its sum
\* is the sum of the amounts of the entries of that category in the 12 months of
\* that year only; a category without entries reports 0.
C8_CategorySums ==
    last.op = "generate_annual_report" =>
        LET report == last.ret[1]
            revs == YearItems(budget_data, last.year, 11, "revenues")
            exps == YearItems(budget_data, last.year, 11, "expenses")
        IN  /\ DOMAIN report.revenue_categories = Range(revenue_categories)
            /\ DOMAIN report.expense_categories = Range(expense_categories)
            /\ \A cat \in Range(revenue_categories) :
                   /\ report.revenue_categories[cat] = SumFrom(0, OfCategory(revs, cat))
                   /\ OfCategory(revs, cat) = <<>> => report.revenue_categories[cat] = 0
            /\ \A cat \in Range(expense_categories) :
                   /\ report.expense_categories[cat] = SumFrom(0, OfCategory(exps, cat))
                   /\ OfCategory(exps, cat) = <<>> => report.expense_categories[cat] = 0

C8_Witness ==
    /\ last.op = "generate_annual_report"
    /\ last.year = 2025
    /\ last.ret[1].revenue_categories[revenue_categories[1]] = 2
    /\ last.ret[1].revenue_categories[revenue_categories[2]] = 0
    /\ OfCategory(YearItems(budget_data, 2024, 11, "revenues"), revenue_categories[1]) # <<>>

Saved(call) == call.op = "save_data" /\ call.status = "ok"

Loaded(call) == call.op = "load_data" /\ call.status = "ok"

C10_FileChangesOnlyOnSave ==
    [][/\ last'.op # "save_data" => file' = file
       /\ Saved(last') =>
              /\ budget_data' = budget_data
              /\ file'.state = "complete"
              /\ DOMAIN file'.doc = DOMAIN budget_data
              /\ json_load(file'.doc) = budget_data]_vars

C10_Witness ==
    /\ last.op = "add_revenue" /\ last.status = "ok"
    /\ file.state = "complete"
    /\ DOMAIN file.doc # {}
    /\ json_load(file.doc) # budget_data

\* C11: save_data is atomic for its caller: after a save attempt, successful or
\* failed, the file holds its complete previous content or the complete
\* serialization of the in-memory ledger, never an empty or partial document, and
\* a failed save leaves the in-memory ledger unchanged.
C11_SaveAtomic ==
    [][last'.op = "save_data" =>
          /\ budget_data' = budget_data
          /\ file'.state # "partial"
          /\ \/ file' = file
             \/ file' = [state |-> "complete", doc |-> json_dump(budget_data)]
          /\ last'.status = "error" => file' = file]_vars

\* C12: load_data never aborts: it returns the empty ledger when the file is
\* absent, and when the file is unreadable or malformed, reporting the error in the
\* latter case; the session goes on from that empty ledger, and a later successful
\* save_data replaces the unreadable file with the session's ledger.
C12_LoadFallsBack ==
    [][/\ last'.op = "load_data" =>
              /\ file' = file
              /\ last'.status \in {"ok", "error"}
              /\ file.state = "absent" =>
                     (last'.status = "ok" /\ budget_data' = EmptyLedger)
              /\ file.state = "partial" => last'.status = "error"
              /\ last'.status = "error" =>
                     (file.state # "absent" /\ budget_data' = EmptyLedger)
              /\ last'.status = "ok" =>
                     budget_data' = (IF file.state = "absent" THEN EmptyLedger
                                     ELSE json_load(file.doc))
       /\ Saved(last') =>
              /\ file' = [state |-> "complete", doc |-> json_dump(budget_data)]
              /\ (last.op = "load_data" /\ last.status = "error") =>
                     file' = [state |-> "complete", doc |-> json_dump(EmptyLedger)]]_vars

C12_Witness ==
    /\ last.op = "load_data" /\ last.status = "error"
    /\ file.state = "complete"
    /\ \E key \in DOMAIN file.doc : Len(file.doc[key].revenues) > 0
    /\ budget_data = EmptyLedger

\* the keys of the 12 months of a year
YearKeys(year) == {get_month_key(year, month) : month \in 0..11}

\* C13: generate_annual_report(year) changes the store only by materializing
\* months: afterwards the keys of months 0..11 of that year are all present, a month
\* that was absent holds empty revenues, expenses and notes, every month present
\* before (of any year) is unchanged and no key of another year is added; a second
\* call changes nothing and returns the same report.
C13_ReportMaterializes ==
    [][last'.op = "generate_annual_report" =>
          LET again == generate_annual_report(budget_data', last'.year)
          IN  /\ YearKeys(last'.year) \subseteq DOMAIN budget_data'
              /\ DOMAIN budget_data' = DOMAIN budget_data \cup YearKeys(last'.year)
              /\ \A key \in DOMAIN budget_data : budget_data'[key] = budget_data[key]
              /\ \A key \in YearKeys(last'.year) \ DOMAIN budget_data :
                     budget_data'[key] = EmptyMonth
              /\ again.store = budget_data'
              /\ again.report = last'.ret[1]]_vars

C13_Witness ==
    /\ last.op = "generate_annual_report" /\ last.year = 2025
    /\ get_month_key(2025, 5) \in DOMAIN budget_data
    /\ budget_data[get_month_key(2025, 5)] = EmptyMonth
    /\ get_month_key(2025, 0) \in DOMAIN budget_data
    /\ budget_data[get_month_key(2025, 0)].revenues # <<>>
    /\ get_month_key(2024, 0) \in DOMAIN budget_data
    /\ budget_data[get_month_key(2024, 0)].expenses # <<>>
    /\ DOMAIN budget_data = YearKeys(2025) \cup {get_month_key(2024, 0)}

\* the notes of month (year, month) as the store holds them, empty when the month
\* was never touched
NotesOf(bd, year, month) ==
    LET key == get_month_key(year, month)
    IN  IF key \in DOMAIN bd THEN bd[key].notes ELSE ""

OtherKind(kind) == IF kind = "revenues" THEN "expenses" ELSE "revenues"

\* the months the handlers can name: the only ones that hold entries or notes (the
\* months a report materializes are covered key by key)
IsolationMonths == IsolationScope.keys

\* C14: add_revenue, add_expense and delete_item on (year, month) change only the
\* targeted list of that month: the month's other list and its notes, and the
\* revenues, expenses and notes of every other key of the store, are unchanged,
\* and so are the totals of every other month.
C14_MonthListIsolation ==
    [][(IsAdd(last') \/ last'.op = "delete_item") =>
          LET key == get_month_key(last'.year, last'.month)
          IN  /\ ListOf(budget_data', last'.year, last'.month, OtherKind(last'.kind))
                     = ListOf(budget_data, last'.year, last'.month, OtherKind(last'.kind))
              /\ NotesOf(budget_data', last'.year, last'.month)
                     = NotesOf(budget_data, last'.year, last'.month)
              /\ DOMAIN budget_data' = DOMAIN budget_data \cup {key}
              /\ \A k \in DOMAIN budget_data \ {key} : budget_data'[k] = budget_data[k]
              /\ \A <<year, month>> \in IsolationMonths :
                     <<year, month>> # <<last'.year, last'.month>> =>
                         /\ \A kind \in Kinds :
                                ListOf(budget_data', year, month, kind)
                                    = ListOf(budget_data, year, month, kind)
                         /\ NotesOf(budget_data', year, month)
                                = NotesOf(budget_data, year, month)
                         /\ calculate_totals(budget_data', year, month).totals
                                = calculate_totals(budget_data, year, month).totals]_vars

C14_Witness ==
    /\ last.op = "add_revenue" /\ last.status = "ok"
    /\ last.year = 2025 /\ last.month = 0
    /\ Len(ListOf(budget_data, 2025, 0, "revenues")) = 1
    /\ NotesOf(budget_data, 2025, 0) = "RAS"
    /\ Len(ListOf(budget_data, 2024, 0, "expenses")) = 1
    /\ NotesOf(budget_data, 2024, 0) = "RAS"
    /\ get_month_key(2025, 11) \in DOMAIN budget_data

====
